---- MODULE Spec2Model ----
(***************************************************************************)
(* Model of the fallback-aware inference layer of src/src/llm:             *)
(* summarization.py (post-processing, rule-based and naive summaries, the  *)
(* lazily initialised _SUMMARY handle, summarize_pt) and classification.py *)
(* (keyword classifier, the _ZS handle, classify_zero_shot_pt).            *)
(*                                                                         *)
(* A Python str is a sequence of one-character strings.  Characters that   *)
(* are outside Latin-1 are written by name: "EMDASH", "LDQUO", "RDQUO".    *)
(* The regular expressions of the source are operators that scan such a    *)
(* sequence the way the re module does.                                    *)
(***************************************************************************)
EXTENDS Integers, Sequences, FiniteSets, TLC

VARIABLES pipeline, _SUMMARY, _ZS, call, pp, threads, models

vars == <<pipeline, _SUMMARY, _ZS, call, pp, threads, models>>

(***************************************************************************)
(* Bounds of the explored inputs.                                          *)
(***************************************************************************)
MaxTextPieces == 2
MaxRawPieces == 3
MaxModelPieces == 1
MaxSentences == 3
MaxLabels == 2
MaxThreads == 2

(***************************************************************************)
(* Characters.                                                             *)
(***************************************************************************)
Whitespace == {" ", "\t", "\n"}

UpperLetters ==
    <<"A", "B", "C", "D", "E", "F", "G", "H", "I", "J", "K", "L", "M",
      "N", "O", "P", "Q", "R", "S", "T", "U", "V", "W", "X", "Y", "Z",
      "Á", "Ã", "Ç", "É", "Ú">>

LowerLetters ==
    <<"a", "b", "c", "d", "e", "f", "g", "h", "i", "j", "k", "l", "m",
      "n", "o", "p", "q", "r", "s", "t", "u", "v", "w", "x", "y", "z",
      "á", "ã", "ç", "é", "ú">>

Digits == {"0", "1", "2", "3", "4", "5", "6", "7", "8", "9"}

\* the characters \w matches (re.UNICODE is the default for str patterns)
WordChars ==
    {UpperLetters[i] : i \in DOMAIN UpperLetters}
        \cup {LowerLetters[i] : i \in DOMAIN LowerLetters}
        \cup Digits \cup {"_"}

\* the characters of [.!?]
SentenceEnd == {".", "!", "?"}

\* the characters of s.strip(' "«»“”')
QuoteChars == {" ", "\"", "«", "»", "LDQUO", "RDQUO"}

\* the characters of [-—:]
ResidualSep == {"-", "EMDASH", ":"}

IsSpace(c) == c \in Whitespace

IsWord(c) == c \in WordChars

UpperSet == {UpperLetters[i] : i \in DOMAIN UpperLetters}

LowerSet == {LowerLetters[i] : i \in DOMAIN LowerLetters}

LowerMap ==
    [c \in UpperSet |->
        LowerLetters[CHOOSE i \in DOMAIN UpperLetters : UpperLetters[i] = c]]

UpperMap ==
    [c \in LowerSet |->
        UpperLetters[CHOOSE i \in DOMAIN LowerLetters : LowerLetters[i] = c]]

\* str.lower() and str.upper() of one character
Lower(c) == IF c \in UpperSet THEN LowerMap[c] ELSE c

Upper(c) == IF c \in LowerSet THEN UpperMap[c] ELSE c

LowerStr(s) == [i \in 1..Len(s) |-> Lower(s[i])]

(***************************************************************************)
(* String primitives.                                                      *)
(***************************************************************************)
\* the first position >= i of s that holds no whitespace (the position after
\* the end of s if there is none): where a greedy \s* started at i ends
SkipSpaces(s, i) ==
    IF i > Len(s) THEN i
    ELSE CHOOSE j \in i..(Len(s) + 1) :
             /\ (j = Len(s) + 1 \/ ~IsSpace(s[j]))
             /\ \A k \in i..(j - 1) : IsSpace(s[k])

\* str.lstrip(cs), str.rstrip(cs), str.strip(cs)
LStrip(s, cs) ==
    LET j == CHOOSE j \in 1..(Len(s) + 1) :
                 /\ (j = Len(s) + 1 \/ s[j] \notin cs)
                 /\ \A k \in 1..(j - 1) : s[k] \in cs
    IN  SubSeq(s, j, Len(s))

RStrip(s, cs) ==
    LET j == CHOOSE j \in 0..Len(s) :
                 /\ (j = 0 \/ s[j] \notin cs)
                 /\ \A k \in (j + 1)..Len(s) : s[k] \in cs
    IN  SubSeq(s, 1, j)

StripChars(s, cs) == RStrip(LStrip(s, cs), cs)

\* a strip() that was left out
StripNothing(s) == s

\* str.strip() with no argument
Strip(s) == StripChars(s, Whitespace)

\* pat (lower case) matches s at position i under (?i)
MatchCI(s, i, pat) ==
    /\ i >= 1
    /\ i + Len(pat) - 1 <= Len(s)
    /\ \A k \in 1..Len(pat) : Lower(s[i + k - 1]) = pat[k]

\* s.startswith(p), s.endswith(p)
StartsWith(s, p) == Len(s) >= Len(p) /\ SubSeq(s, 1, Len(p)) = p

EndsWith(s, p) ==
    Len(s) >= Len(p) /\ SubSeq(s, Len(s) - Len(p) + 1, Len(s)) = p

RECURSIVE Join(_, _)
\* sep.join(parts)
Join(parts, sep) ==
    IF Len(parts) = 0 THEN <<>>
    ELSE IF Len(parts) = 1 THEN parts[1]
    ELSE parts[1] \o sep \o Join(Tail(parts), sep)

RECURSIVE Concats(_, _)
\* the concatenations of at most n pieces of P
Concats(P, n) ==
    IF n = 0 THEN {<<>>}
    ELSE LET shorter == Concats(P, n - 1)
         IN  shorter \cup {p \o s : p \in P, s \in shorter}

(***************************************************************************)
(* _postprocess_summary                                                    *)
(***************************************************************************)
resumo == <<"r", "e", "s", "u", "m", "o">>

Ellipsis == <<" ", ".", ".", ".">>

\* s from position i on, each run of whitespace replaced by one space
CollapseFrom(s, i) ==
    LET chars == [k \in 1..Len(s) |->
                     [c |-> IF IsSpace(s[k]) THEN " " ELSE s[k],
                      keep |-> /\ k >= i
                               /\ (~IsSpace(s[k]) \/ k = i \/ ~IsSpace(s[k - 1]))]]
        Kept(x) == x.keep
        kept == SelectSeq(chars, Kept)
    IN  [k \in 1..Len(kept) |-> kept[k].c]

\* re.sub(r"\s+", " ", raw)
CollapseSpaces(raw) == CollapseFrom(raw, 1)

\* where a match of (?i)\bresumo\s*:\s* that starts at i ends (the position
\* after it), 0 when there is no match at i
HeaderEnd(t, i) ==
    IF (i = 1 \/ ~IsWord(t[i - 1])) /\ MatchCI(t, i, resumo)
    THEN LET j == SkipSpaces(t, i + Len(resumo))
         IN  IF j <= Len(t) /\ t[j] = ":" THEN SkipSpaces(t, j + 1) ELSE 0
    ELSE 0

RECURSIVE StripHeadersFrom(_, _)
\* t from position i on without the matches of the header pattern
StripHeadersFrom(t, i) ==
    LET at == {k \in i..Len(t) : HeaderEnd(t, k) # 0}
    IN  IF at = {} THEN SubSeq(t, i, Len(t))
        ELSE LET m == CHOOSE k \in at : \A n \in at : k <= n
             IN  SubSeq(t, i, m - 1) \o StripHeadersFrom(t, HeaderEnd(t, m))

\* without the removal of the header markers
StripHeadersNone(t) == t

\* re.sub(r"(?i)\bresumo\s*:\s*", "", t)
StripHeaders(t) == StripHeadersFrom(t, 1)

\* the first position >= i of s where (?<=[.!?])\s+ matches: a whitespace
\* character that follows a sentence end (the position after the end of s
\* if there is none)
NextBoundary(s, i) ==
    LET at == {k \in i..Len(s) :
                  IsSpace(s[k]) /\ k > 1 /\ s[k - 1] \in SentenceEnd}
    IN  IF at = {} THEN Len(s) + 1
        ELSE CHOOSE k \in at : \A m \in at : k <= m

RECURSIVE SplitFrom(_, _, _)
\* b: where the current sentence starts, i: the scan position
SplitFrom(s, b, i) ==
    LET k == NextBoundary(s, i)
        j == SkipSpaces(s, k)
    IN  IF k > Len(s) THEN <<SubSeq(s, b, Len(s))>>
        ELSE <<SubSeq(s, b, k - 1)>> \o SplitFrom(s, j, j)

\* re.split(r"(?<=[.!?])\s+", t)
SplitSentences(t) == SplitFrom(t, 1, 1)

\* re.sub(r"(?i)^\s*resumo\s*[-—:]\s*", "", s).strip()
StripResidual(s) ==
    LET i == SkipSpaces(s, 1)
        j == SkipSpaces(s, i + Len(resumo))
    IN  Strip(IF MatchCI(s, i, resumo) /\ j <= Len(s) /\ s[j] \in ResidualSep
              THEN SubSeq(s, SkipSpaces(s, j + 1), Len(s))
              ELSE s)

\* re.sub(r"\W+", "", s.lower())
DedupKey(s) == SelectSeq(LowerStr(s), IsWord)

RECURSIVE KeepFromNoDedup(_, _, _, _, _)
\* the loop without the test key in seen
KeepFromNoDedup(sents, i, seen, out, max_sentences) ==
    IF i > Len(sents) THEN out
    ELSE LET q == StripChars(sents[i], QuoteChars)
             s == StripResidual(q)
             key == DedupKey(s)
         IN  IF q = <<>> \/ Len(s) < 3
             THEN KeepFromNoDedup(sents, i + 1, seen, out, max_sentences)
             ELSE LET out2 == Append(out, [idx |-> i, s |-> s, key |-> key])
                  IN  IF Len(out2) >= max_sentences THEN out2
                      ELSE KeepFromNoDedup(sents, i + 1, seen \cup {key}, out2,
                                           max_sentences)

RECURSIVE KeepFrom(_, _, _, _, _)
\* the for loop over sents: i is the index of the next sentence, out the
\* list built so far (each kept sentence with the index it came from and
\* its key), seen the set of keys
KeepFrom(sents, i, seen, out, max_sentences) ==
    IF i > Len(sents) THEN out
    ELSE LET q == StripChars(sents[i], QuoteChars)
             s == StripResidual(q)
             key == DedupKey(s)
         IN  IF q = <<>> THEN KeepFrom(sents, i + 1, seen, out, max_sentences)
             ELSE IF Len(s) < 3 \/ key \in seen
             THEN KeepFrom(sents, i + 1, seen, out, max_sentences)
             ELSE LET out2 == Append(out, [idx |-> i, s |-> s, key |-> key])
                  IN  IF Len(out2) >= max_sentences THEN out2
                      ELSE KeepFrom(sents, i + 1, seen \cup {key}, out2,
                                    max_sentences)

\* the list sents of _postprocess_summary
PostSents(raw) == SplitSentences(StripHeaders(Strip(CollapseSpaces(raw))))

\* the list out of _postprocess_summary
PostOut(raw, max_sentences) ==
    IF raw = <<>> THEN <<>>
    ELSE KeepFrom(PostSents(raw), 1, {}, <<>>, max_sentences)

_postprocess_summary(raw, max_sentences) ==
    LET out == PostOut(raw, max_sentences)
    IN  IF out = <<>> THEN <<>>
        ELSE Join([k \in 1..Len(out) |-> out[k].s], <<" ">>)
                 \o (IF Len(PostSents(raw)) > max_sentences
                     THEN Ellipsis ELSE <<>>)

(***************************************************************************)
(* _rb_summary_pt                                                          *)
(***************************************************************************)
\* the alternatives of (solicito|gostaria de|quero|preciso), in order
RequestVerbs ==
    << <<"s", "o", "l", "i", "c", "i", "t", "o">>,
       <<"g", "o", "s", "t", "a", "r", "i", "a", " ", "d", "e">>,
       <<"q", "u", "e", "r", "o">>,
       <<"p", "r", "e", "c", "i", "s", "o">> >>

Solicita == <<"S", "o", "l", "i", "c", "i", "t", "a", " ">>

\* one alternative v of the pattern ^\s*(v)\s+(.*)$ tried on t under
\* re.IGNORECASE: \s+ takes the whole whitespace run after the verb, .* stops
\* at a newline, and $ matches at the end or before a final newline
VerbMatch(t, v) ==
    LET i == SkipSpaces(t, 1)
        w == i + Len(v)
        r == SkipSpaces(t, w)
        rest == SubSeq(t, r, Len(t))
        nl == {k \in 1..Len(rest) : rest[k] = "\n"}
    IN  [ok |-> MatchCI(t, i, v) /\ r > w /\ nl \subseteq {Len(rest)},
         core |-> IF nl = {} THEN rest ELSE SubSeq(rest, 1, Len(rest) - 1)]

\* re.match(r"^\s*(solicito|gostaria de|quero|preciso)\s+(.*)$", t,
\*          flags=re.IGNORECASE): ok, and group(2)
RequestMatch(t) ==
    LET hits == {k \in DOMAIN RequestVerbs : VerbMatch(t, RequestVerbs[k]).ok}
    IN  IF hits = {} THEN [ok |-> FALSE, core |-> <<>>]
        ELSE VerbMatch(t, RequestVerbs[CHOOSE k \in hits : \A h \in hits : k <= h])

_rb_summary_pt(text) ==
    LET t0 == RStrip(Strip(text), {"."})
        m == RequestMatch(t0)
        t1 == IF m.ok THEN Solicita \o m.core ELSE t0
        t2 == IF t1 # <<>> THEN <<Upper(t1[1])>> \o Tail(t1) ELSE t1
    IN  IF t2 # <<>> /\ ~EndsWith(t2, <<".">>) THEN t2 \o <<".">> ELSE t2

(***************************************************************************)
(* _fallback_summary                                                       *)
(***************************************************************************)
FallbackMarker ==
    <<"(", "R", "e", "s", "u", "m", "o", " ", "a", "u", "t", "o", "m", "á",
      "t", "i", "c", "o", " ", "s", "i", "m", "p", "l", "e", "s", ")", " ">>

\* a slice that keeps the whole list
SliceAll(seq, n) == seq

\* seq[:n]
Slice(seq, n) ==
    IF n >= 0 THEN SubSeq(seq, 1, IF n < Len(seq) THEN n ELSE Len(seq))
    ELSE SubSeq(seq, 1, Len(seq) + n)

_fallback_summary(text, max_sentences) ==
    LET t == Strip(text)
        sents == SplitSentences(t)
        joined == Strip(Join(Slice(sents, max_sentences), <<" ">>))
    IN  IF t = <<>> THEN <<>>
        ELSE FallbackMarker \o joined
                 \o (IF Len(sents) > max_sentences THEN Ellipsis ELSE <<>>)

(***************************************************************************)
(* get_summarizer.  A handle is "None", "FALLBACK" or "PIPELINE" (the      *)
(* object pipeline(...) returned).  lib is FALSE when base.py could not    *)
(* import transformers (pipeline is None).  construct_ok and smoke_ok say  *)
(* whether pipeline(...) and the smoke-test call return or raise.          *)
(***************************************************************************)
\* a get_summarizer that caches only a pipeline and tries again when the
\* handle is "FALLBACK"
get_summarizer_retry(handle, lib, construct_ok, smoke_ok) ==
    IF handle = "PIPELINE"
    THEN [handle |-> handle, constructed |-> FALSE, failure |-> "none"]
    ELSE IF ~lib
    THEN [handle |-> "FALLBACK", constructed |-> FALSE, failure |-> "no_library"]
    ELSE IF ~construct_ok
    THEN [handle |-> "FALLBACK", constructed |-> TRUE, failure |-> "construct"]
    ELSE IF ~smoke_ok
    THEN [handle |-> "FALLBACK", constructed |-> TRUE, failure |-> "smoke"]
    ELSE [handle |-> "PIPELINE", constructed |-> TRUE, failure |-> "none"]

get_summarizer(handle, lib, construct_ok, smoke_ok) ==
    IF handle # "None"
    THEN [handle |-> handle, constructed |-> FALSE, failure |-> "none"]
    ELSE IF ~lib
    THEN [handle |-> "FALLBACK", constructed |-> FALSE, failure |-> "no_library"]
    ELSE IF ~construct_ok
    THEN [handle |-> "FALLBACK", constructed |-> TRUE, failure |-> "construct"]
    ELSE IF ~smoke_ok
    THEN [handle |-> "FALLBACK", constructed |-> TRUE, failure |-> "smoke"]
    ELSE [handle |-> "PIPELINE", constructed |-> TRUE, failure |-> "none"]

(***************************************************************************)
(* summarize_pt                                                            *)
(***************************************************************************)
SHORT_WORDS_THRESHOLD == 6

\* len(re.findall(r"\w+", text, flags=re.UNICODE))
WordCount(text) ==
    Cardinality({i \in 1..Len(text) :
                    IsWord(text[i]) /\ (i = 1 \/ ~IsWord(text[i - 1]))})

\* the threshold test with < for <=
IsShortTextStrict(text) == WordCount(text) < SHORT_WORDS_THRESHOLD

IsShortText(text) == WordCount(text) <= SHORT_WORDS_THRESHOLD

\* an except block that also gives up the pipeline
SummarizeExceptDropsHandle(text, handle) ==
    [result |-> _fallback_summary(text, 3), raised |-> FALSE,
     handle |-> "FALLBACK"]

\* the except block of summarize_pt: the result of the call and the handle
\* it leaves
SummarizeExcept(text, handle) ==
    [result |-> _fallback_summary(text, 3), raised |-> FALSE, handle |-> handle]

\* the model call outside any try statement: its exception leaves
\* summarize_pt
SummarizeTryUncaught(text, max_sentences, handle, invoke_ok, raw) ==
    IF invoke_ok
    THEN [result |-> _postprocess_summary(Strip(raw), max_sentences),
          raised |-> FALSE, handle |-> handle]
    ELSE [result |-> <<>>, raised |-> TRUE, handle |-> handle]

\* the try statement of summarize_pt: the model call either raises
\* (invoke_ok is FALSE) or returns the generated text raw
SummarizeTry(text, max_sentences, handle, invoke_ok, raw) ==
    IF invoke_ok
    THEN [result |-> _postprocess_summary(Strip(raw), max_sentences),
          raised |-> FALSE, handle |-> handle]
    ELSE SummarizeExcept(text, handle)

\* env: what the backend does during this call
summarize_pt(text, max_sentences, handle, lib, env) ==
    LET t == Strip(text)
        g == get_summarizer(handle, lib, env.construct_ok, env.smoke_ok)
        r == SummarizeTry(t, max_sentences, g.handle, env.invoke_ok, env.raw)
    IN  IF t = <<>>
        THEN [path |-> "empty", result |-> <<>>, raised |-> FALSE,
              handle |-> handle, constructed |-> FALSE, invoked |-> FALSE,
              failure |-> "none"]
        ELSE IF IsShortText(t)
        THEN [path |-> "rule_based", result |-> _rb_summary_pt(t),
              raised |-> FALSE, handle |-> handle, constructed |-> FALSE,
              invoked |-> FALSE, failure |-> "none"]
        ELSE IF g.handle = "FALLBACK"
        THEN [path |-> "fallback",
              result |-> _fallback_summary(t, max_sentences),
              raised |-> FALSE, handle |-> g.handle,
              constructed |-> g.constructed, invoked |-> FALSE,
              failure |-> g.failure]
        ELSE [path |-> IF env.invoke_ok THEN "model" ELSE "model_error",
              result |-> r.result, raised |-> r.raised, handle |-> r.handle,
              constructed |-> g.constructed, invoked |-> TRUE,
              failure |-> IF env.invoke_ok THEN "none" ELSE "invoke"]

(***************************************************************************)
(* _fallback_classify.  A label is a string; a dict is the sequence of its *)
(* items in insertion order.  Scores are in hundredths: 0.01 is 1 and 0.2  *)
(* is 20.                                                                  *)
(***************************************************************************)
DEFAULT_CATEGORIES ==
    <<"Feedback", "Reclamação", "Suporte técnico", "Dúvida",
      "Solicitação de serviço">>

\* the dict rules, in insertion order
Rules ==
    <<[lbl |-> "Reclamação",
       kws |-> <<<<"e", "r", "r", "o">>,
                 <<"n", "ã", "o", " ", "f", "u", "n", "c", "i", "o", "n", "a">>,
                 <<"d", "e", "m", "o", "r", "a">>,
                 <<"r", "e", "c", "l", "a", "m", "a">>>>],
      [lbl |-> "Suporte técnico",
       kws |-> <<<<"b", "u", "g">>,
                 <<"i", "n", "s", "t", "a", "l", "a", "r">>,
                 <<"a", "c", "e", "s", "s", "o">>,
                 <<"s", "e", "n", "h", "a">>,
                 <<"c", "o", "n", "f", "i", "g", "u", "r", "a", "r">>,
                 <<"t", "é", "c", "n", "i", "c", "o">>>>],
      [lbl |-> "Dúvida",
       kws |-> <<<<"c", "o", "m", "o">>,
                 <<"o", "n", "d", "e">>,
                 <<"p", "o", "s", "s", "o">>,
                 <<"d", "u", "v", "i", "d", "a">>,
                 <<"d", "ú", "v", "i", "d", "a">>>>],
      [lbl |-> "Solicitação de serviço",
       kws |-> <<<<"p", "e", "d", "i", "d", "o">>,
                 <<"s", "o", "l", "i", "c", "i", "t", "o">>,
                 <<"p", "r", "o", "v", "i", "s", "i", "o", "n", "a", "r">>,
                 <<"a", "t", "i", "v", "a", "r">>,
                 <<"c", "r", "i", "a", "r">>>>],
      [lbl |-> "Feedback",
       kws |-> <<<<"s", "u", "g", "e", "s", "t", "ã", "o">>,
                 <<"g", "o", "s", "t", "e", "i">>,
                 <<"m", "e", "l", "h", "o", "r", "a", "r">>,
                 <<"i", "d", "e", "i", "a">>>>]>>

BaseScore == 1

KeywordScore == 20

\* kw in s
Contains(s, kw) ==
    \E i \in 1..(Len(s) - Len(kw) + 1) : SubSeq(s, i, i + Len(kw) - 1) = kw

RECURSIVE DictKeys(_)
\* the keys of a dict built from the sequence seq of keys: each key once, at
\* the place of its first occurrence
DictKeys(seq) ==
    IF seq = <<>> THEN <<>>
    ELSE LET front == SubSeq(seq, 1, Len(seq) - 1)
             last == seq[Len(seq)]
         IN  IF \E i \in DOMAIN front : front[i] = last THEN DictKeys(front)
             ELSE Append(DictKeys(front), last)

\* a loop that adds one KeywordScore for every occurrence of a keyword
KeywordBonusPerOccurrence(text_l, lbl) ==
    LET rs == {r \in DOMAIN Rules : Rules[r].lbl = lbl}
    IN  IF rs = {} THEN 0
        ELSE LET kws == Rules[CHOOSE r \in rs : TRUE].kws
             IN  KeywordScore
                     * Cardinality({<<k, i>> \in (DOMAIN kws) \X (DOMAIN text_l) :
                                       /\ i + Len(kws[k]) - 1 <= Len(text_l)
                                       /\ SubSeq(text_l, i, i + Len(kws[k]) - 1)
                                              = kws[k]})

\* what the loop over rules.items() adds to scores[lbl]: one KeywordScore
\* for each keyword of lbl's entry that occurs in text_l
KeywordBonus(text_l, lbl) ==
    LET rs == {r \in DOMAIN Rules : Rules[r].lbl = lbl}
    IN  IF rs = {} THEN 0
        ELSE LET kws == Rules[CHOOSE r \in rs : TRUE].kws
             IN  KeywordScore
                     * Cardinality({k \in DOMAIN kws : Contains(text_l, kws[k])})

\* the last key of maximal score for the first
BestLabelLast(scores) ==
    IF scores = <<>> THEN ""
    ELSE scores[CHOOSE i \in DOMAIN scores :
                    /\ \A j \in DOMAIN scores : scores[j].sc <= scores[i].sc
                    /\ \A j \in (i + 1)..Len(scores) :
                           scores[j].sc < scores[i].sc].lbl

\* max(scores, key=scores.get) if scores else ""
BestLabel(scores) ==
    IF scores = <<>> THEN ""
    ELSE scores[CHOOSE i \in DOMAIN scores :
                    /\ \A j \in DOMAIN scores : scores[j].sc <= scores[i].sc
                    /\ \A j \in 1..(i - 1) : scores[j].sc < scores[i].sc].lbl

_fallback_classify(text, labels) ==
    LET text_l == LowerStr(text)
        keys == DictKeys(IF labels # <<>> THEN labels ELSE DEFAULT_CATEGORIES)
        scores == [i \in 1..Len(keys) |->
                      [lbl |-> keys[i],
                       sc |-> BaseScore + KeywordBonus(text_l, keys[i])]]
    IN  [label |-> BestLabel(scores), scores |-> scores]

(***************************************************************************)
(* get_zero_shot                                                           *)
(***************************************************************************)
get_zero_shot(handle, lib, construct_ok, smoke_ok) ==
    IF handle # "None"
    THEN [handle |-> handle, constructed |-> FALSE, failure |-> "none"]
    ELSE IF ~lib
    THEN [handle |-> "FALLBACK", constructed |-> FALSE, failure |-> "no_library"]
    ELSE IF ~construct_ok
    THEN [handle |-> "FALLBACK", constructed |-> TRUE, failure |-> "construct"]
    ELSE IF ~smoke_ok
    THEN [handle |-> "FALLBACK", constructed |-> TRUE, failure |-> "smoke"]
    ELSE [handle |-> "PIPELINE", constructed |-> TRUE, failure |-> "none"]

(***************************************************************************)
(* classify_zero_shot_pt.  The labels argument is [none |-> TRUE] for None *)
(* and [none |-> FALSE, items |-> the list] otherwise.                     *)
(***************************************************************************)
NoLabels == [none |-> TRUE, items |-> <<>>]

\* labels or DEFAULT_CATEGORIES
LabelsOrDefault(labels) ==
    IF ~labels.none /\ labels.items # <<>> THEN labels.items
    ELSE DEFAULT_CATEGORIES

\* [lbl for lbl in (labels or DEFAULT_CATEGORIES) if lbl]
FilterLabels(labels) ==
    LET NonEmpty(lbl) == lbl # ""
    IN  SelectSeq(LabelsOrDefault(labels), NonEmpty)

EmptyResult == [label |-> "", scores |-> <<>>]

\* what the zero-shot pipeline returns for the candidate labels ls: the
\* labels ranked with ls[top] first, and their scores in descending order
ZeroShotOutput(ls, top) ==
    LET n == Len(ls)
        first == ((top - 1) % n) + 1
    IN  [labels |-> [i \in 1..n |-> ls[((first + i - 2) % n) + 1]],
         scores |-> [i \in 1..n |-> 100 - 10 * i]]

\* {lbl: float(sc) for lbl, sc in zip(out["labels"], out["scores"])}
ZipScores(out) ==
    LET keys == DictKeys(out.labels)
        LastOf(lbl) == CHOOSE i \in DOMAIN out.labels :
                           /\ out.labels[i] = lbl
                           /\ \A j \in DOMAIN out.labels :
                                  out.labels[j] = lbl => j <= i
    IN  [i \in 1..Len(keys) |->
            [lbl |-> keys[i], sc |-> out.scores[LastOf(keys[i])]]]

\* the except block of classify_zero_shot_pt
ClassifyExcept(text, labels, handle) ==
    [result |-> _fallback_classify(text, labels), raised |-> FALSE,
     handle |-> handle]

\* the try statement of classify_zero_shot_pt
ClassifyTry(text, labels, handle, invoke_ok, top) ==
    IF invoke_ok
    THEN LET out == ZeroShotOutput(labels, top)
         IN  [result |-> [label |-> out.labels[1], score |-> out.scores[1],
                          scores |-> ZipScores(out)],
              raised |-> FALSE, handle |-> handle]
    ELSE ClassifyExcept(text, labels, handle)

classify_zero_shot_pt(text, labels, handle, lib, env) ==
    LET t == Strip(text)
        ls == FilterLabels(labels)
        g == get_zero_shot(handle, lib, env.construct_ok, env.smoke_ok)
        r == ClassifyTry(t, ls, g.handle, env.invoke_ok, env.top)
    IN  IF t = <<>> \/ ls = <<>>
        THEN [path |-> "empty", result |-> EmptyResult, raised |-> FALSE,
              handle |-> handle, constructed |-> FALSE, invoked |-> FALSE,
              failure |-> "none"]
        ELSE IF g.handle = "FALLBACK"
        THEN [path |-> "fallback", result |-> _fallback_classify(t, ls),
              raised |-> FALSE, handle |-> g.handle,
              constructed |-> g.constructed, invoked |-> FALSE,
              failure |-> g.failure]
        ELSE [path |-> IF env.invoke_ok THEN "model" ELSE "model_error",
              result |-> r.result, raised |-> r.raised, handle |-> r.handle,
              constructed |-> g.constructed, invoked |-> TRUE,
              failure |-> IF env.invoke_ok THEN "none" ELSE "invoke"]

(***************************************************************************)
(* Inputs.                                                                 *)
(***************************************************************************)
RawPieces ==
    { <<"R", "e", "s", "u", "m", "o", ":", " ">>,
      <<"r", "e", "s", "u", "m", "o">>,
      <<" ", "-", " ">>,
      <<":">>,
      <<"a", "b", "c", ".", " ">>,
      <<"A", "B", "C", "!", "\t", " ">>,
      <<"\"", "x", "y", "z", "?", "\"", " ">>,
      <<"o", ".", " ">> }

\* the raw outputs given to the post-processing step on its own
RawOutputs == Concats(RawPieces, MaxRawPieces)

ModelPieces ==
    { <<"R", "e", "s", "u", "m", "o", ":", " ", "A", "b", "c", ".", " ",
        "a", "b", "c", "!", " ", "x", "y", "z", ".", "\n">>,
      <<"r", "e", "s", "u", "m", "o", " ", "-", " ">>,
      <<"o", ".", " ">> }

\* the texts the summarization model generates
ModelOutputs == Concats(ModelPieces, MaxModelPieces)

SumPieces ==
    { <<"R", "e", "s", "u", "m", "o", ":", " ">>,
      <<"Q", "u", "e", "r", "o", " ">>,
      <<"a", "b", "c", ".">>,
      <<" ", "\n">>,
      <<"u", "m", " ", "d", "o", "i", "s", ".", " ", "t", "r", "e", "s", " ",
        "q", "u", "a", "t", "r", "o", "!", " ", "c", "i", "n", "c", "o", " ",
        "s", "e", "i", "s", "?", " ">> }

\* the texts given to summarize_pt
SumTexts == Concats(SumPieces, MaxTextPieces)

ClsPieces ==
    { <<"E", "r", "r", "o", " ", "c", "o", "m", "o", " ">>,
      <<"O", "n", "d", "e", "?", " ">> }

\* the texts given to classify_zero_shot_pt: a blank one, and the
\* concatenations of keyword pieces
ClsTexts == {<<" ", "\n">>} \cup Concats(ClsPieces, MaxTextPieces)

\* " " is a whitespace-only label, and a label that is not a key of rules
LabelPool == {"Reclamação", "Dúvida", " ", ""}

RECURSIVE LabelLists(_)
LabelLists(n) ==
    IF n = 0 THEN {<<>>}
    ELSE LET shorter == LabelLists(n - 1)
         IN  shorter \cup {<<l>> \o s : l \in LabelPool, s \in shorter}

\* the labels arguments given to classify_zero_shot_pt
LabelArgs ==
    {NoLabels} \cup {[none |-> FALSE, items |-> ls] : ls \in LabelLists(MaxLabels)}

SentenceCounts == 0..MaxSentences

\* what the backend can do during one call that reaches the handle: the
\* constructor and the smoke test matter only while the handle is None and
\* the library is there, the model call only once the handle is a pipeline
InitEnvs(handle, lib) ==
    IF handle = "None" /\ lib
    THEN {[construct_ok |-> c, smoke_ok |-> s] :
              c \in BOOLEAN, s \in BOOLEAN} \ {[construct_ok |-> FALSE, smoke_ok |-> TRUE]}
    ELSE {[construct_ok |-> FALSE, smoke_ok |-> FALSE]}

Live(handle, lib, e) ==
    handle = "PIPELINE" \/ (handle = "None" /\ lib /\ e.construct_ok /\ e.smoke_ok)

SumEnvs(text, handle, lib) ==
    IF Strip(text) = <<>> \/ IsShortText(Strip(text))
    THEN {[construct_ok |-> FALSE, smoke_ok |-> FALSE, invoke_ok |-> FALSE,
           raw |-> <<>>]}
    ELSE UNION {
           IF Live(handle, lib, e)
           THEN {[construct_ok |-> e.construct_ok, smoke_ok |-> e.smoke_ok,
                  invoke_ok |-> TRUE, raw |-> raw] : raw \in ModelOutputs}
                \cup {[construct_ok |-> e.construct_ok, smoke_ok |-> e.smoke_ok,
                       invoke_ok |-> FALSE, raw |-> <<>>]}
           ELSE {[construct_ok |-> e.construct_ok, smoke_ok |-> e.smoke_ok,
                  invoke_ok |-> FALSE, raw |-> <<>>]}
           : e \in InitEnvs(handle, lib)}

ClsEnvs(text, labels, handle, lib) ==
    IF Strip(text) = <<>> \/ FilterLabels(labels) = <<>>
    THEN {[construct_ok |-> FALSE, smoke_ok |-> FALSE, invoke_ok |-> FALSE,
           top |-> 1]}
    ELSE UNION {
           IF Live(handle, lib, e)
           THEN {[construct_ok |-> e.construct_ok, smoke_ok |-> e.smoke_ok,
                  invoke_ok |-> TRUE, top |-> k] :
                     k \in 1..Len(FilterLabels(labels))}
                \cup {[construct_ok |-> e.construct_ok, smoke_ok |-> e.smoke_ok,
                       invoke_ok |-> FALSE, top |-> 1]}
           ELSE {[construct_ok |-> e.construct_ok, smoke_ok |-> e.smoke_ok,
                  invoke_ok |-> FALSE, top |-> 1]}
           : e \in InitEnvs(handle, lib)}

(***************************************************************************)
(* The process: calls of summarize_pt and classify_zero_shot_pt, one after *)
(* the other, on the module-level handles _SUMMARY and _ZS.  call is the   *)
(* call that has just returned, with the handle it found (before) and      *)
(* whether the call before it on the same engine ended in the except       *)
(* block (after_error).                                                    *)
(***************************************************************************)
NoCall == [op |-> "idle", prev_error |-> "none"]

\* the callers that may run at the same time (request handlers of the app)
Threads == 1..MaxThreads

Engines == {"summarize", "classify"}

\* a caller before its call: pc is its position, op the engine of its
\* call, obj the pipeline it constructed, callee the object its smoke test
\* calls, z the handle get_summarizer / get_zero_shot returned to it
NoThread == [pc |-> "idle", op |-> "none", obj |-> "None", callee |-> "None",
             z |-> "None"]

NoThreads == [t \in Threads |-> NoThread]

\* the pipeline objects constructed so far, per engine
NoModels == [e \in Engines |-> <<>>]

NoPost == [raw |-> <<>>, max_sentences |-> 0, done |-> FALSE,
           out |-> <<>>, result |-> <<>>]

Init ==
    /\ pipeline \in BOOLEAN
    /\ _SUMMARY = "None"
    /\ _ZS = "None"
    /\ call = NoCall
    /\ pp = NoPost
    /\ threads = NoThreads
    /\ models = NoModels

Summarize ==
    /\ call.op = "idle"
    /\ \E text \in SumTexts, max_sentences \in SentenceCounts :
         \E env \in SumEnvs(text, _SUMMARY, pipeline) :
           \E r \in {summarize_pt(text, max_sentences, _SUMMARY, pipeline, env)} :
               /\ _SUMMARY' = r.handle
               /\ call' = [op |-> "summarize", text |-> text,
                           max_sentences |-> max_sentences,
                           labels |-> NoLabels, raw |-> env.raw,
                           before |-> _SUMMARY,
                           after_error |-> call.prev_error = "summarize",
                           path |-> r.path, result |-> r.result,
                           raised |-> r.raised,
                           constructed |-> r.constructed,
                           invoked |-> r.invoked, failure |-> r.failure]
    /\ UNCHANGED <<pipeline, _ZS, pp, threads, models>>

Classify ==
    /\ call.op = "idle"
    /\ \E text \in ClsTexts, labels \in LabelArgs :
         \E env \in ClsEnvs(text, labels, _ZS, pipeline) :
           \E r \in {classify_zero_shot_pt(text, labels, _ZS, pipeline, env)} :
               /\ _ZS' = r.handle
               /\ call' = [op |-> "classify", text |-> text,
                           max_sentences |-> 0,
                           labels |-> labels, raw |-> <<>>,
                           before |-> _ZS,
                           after_error |-> call.prev_error = "classify",
                           path |-> r.path, result |-> r.result,
                           raised |-> r.raised,
                           constructed |-> r.constructed,
                           invoked |-> r.invoked, failure |-> r.failure]
    /\ UNCHANGED <<pipeline, _SUMMARY, pp, threads, models>>

\* the caller takes the result and goes on to its next call
Return ==
    /\ call.op # "idle"
    /\ call' = [op |-> "idle",
                prev_error |-> IF call.failure = "invoke" THEN call.op
                               ELSE "none"]
    /\ UNCHANGED <<pipeline, _SUMMARY, _ZS, pp, threads, models>>

Next == Summarize \/ Classify \/ Return

Spec == Init /\ [][Next]_vars

(***************************************************************************)
(* The post-processing step on its own, applied to every raw output.       *)
(***************************************************************************)
InitPost ==
    /\ pipeline = TRUE
    /\ _SUMMARY = "None"
    /\ _ZS = "None"
    /\ call = NoCall
    /\ pp \in {[NoPost EXCEPT !.raw = r, !.max_sentences = m] :
                  r \in RawOutputs, m \in SentenceCounts}
    /\ threads = NoThreads
    /\ models = NoModels

Postprocess ==
    /\ ~pp.done
    /\ pp' = [pp EXCEPT !.done = TRUE,
                        !.out = PostOut(pp.raw, pp.max_sentences),
                        !.result = _postprocess_summary(pp.raw, pp.max_sentences)]
    /\ UNCHANGED <<pipeline, _SUMMARY, _ZS, call, threads, models>>

NextPost == Postprocess

SpecPost == InitPost /\ [][NextPost]_vars


(***************************************************************************)
(* _fallback_summary on its own, applied to every text and max_sentences.  *)
(***************************************************************************)
InitNaive ==
    /\ pipeline = FALSE
    /\ _SUMMARY = "None"
    /\ _ZS = "None"
    /\ call = NoCall
    /\ pp \in {[NoPost EXCEPT !.raw = t, !.max_sentences = m] :
                  t \in SumTexts, m \in SentenceCounts}
    /\ threads = NoThreads
    /\ models = NoModels

NaiveSummary ==
    /\ ~pp.done
    /\ pp' = [pp EXCEPT !.done = TRUE,
                        !.result = _fallback_summary(pp.raw, pp.max_sentences)]
    /\ UNCHANGED <<pipeline, _SUMMARY, _ZS, call, threads, models>>

NextNaive == NaiveSummary

SpecNaive == InitNaive /\ [][NextNaive]_vars

(***************************************************************************)
(* Callers that run at the same time (the app serves its two buttons from  *)
(* worker threads).  get_summarizer and get_zero_shot take no lock, so a   *)
(* step is one read or write of the module-level handle, or one call into  *)
(* the backend.  The text and the labels of a call are such that the call  *)
(* passes the early returns and reaches the handle; each caller makes one  *)
(* call.                                                                   *)
(***************************************************************************)
\* the objects pipeline(...) returns for one engine, in construction order
Pipelines == <<"PIPELINE", "PIPELINE_2", "PIPELINE_3", "PIPELINE_4">>

PipelineIndex(h) == CHOOSE i \in DOMAIN Pipelines : Pipelines[i] = h

IsPipeline(h) == \E i \in DOMAIN Pipelines : Pipelines[i] = h

\* the module-level handle of engine e
Handle(e) == IF e = "summarize" THEN _SUMMARY ELSE _ZS

\* global _SUMMARY / _ZS; <handle> = v
SetHandle(e, v) ==
    IF e = "summarize" THEN _SUMMARY' = v /\ UNCHANGED _ZS
    ELSE _ZS' = v /\ UNCHANGED _SUMMARY

\* the smoke-test state of the pipeline object h of engine e
SmokeOf(e, h) == models[e][PipelineIndex(h)].smoke

\* summ = get_summarizer() / z = get_zero_shot()
CallEngine(t) ==
    /\ threads[t].pc = "idle"
    /\ \E e \in Engines :
           threads' = [threads EXCEPT ![t] =
                          [NoThread EXCEPT !.pc = "check", !.op = e]]
    /\ UNCHANGED <<pipeline, _SUMMARY, _ZS, call, pp, models>>

\* if _SUMMARY is not None: ...;  if pipeline is None: ...
CheckCached(t) ==
    /\ threads[t].pc = "check"
    /\ threads' = [threads EXCEPT ![t].pc =
                      IF Handle(threads[t].op) # "None" THEN "return"
                      ELSE IF ~pipeline THEN "no_library"
                      ELSE "construct"]
    /\ UNCHANGED <<pipeline, _SUMMARY, _ZS, call, pp, models>>

\* _SUMMARY = "FALLBACK" when transformers is missing
NoLibrary(t) ==
    /\ threads[t].pc = "no_library"
    /\ SetHandle(threads[t].op, "FALLBACK")
    /\ threads' = [threads EXCEPT ![t].pc = "return"]
    /\ UNCHANGED <<pipeline, call, pp, models>>

\* pipeline(task=..., model=...): returns a new object or raises
Construct(t) ==
    /\ threads[t].pc = "construct"
    /\ Len(models[threads[t].op]) < Len(Pipelines)
    /\ \E construct_ok \in BOOLEAN :
           IF construct_ok
           THEN LET e == threads[t].op
                    h == Pipelines[Len(models[e]) + 1]
                IN  /\ models' = [models EXCEPT ![e] =
                                     Append(@, [by |-> t, smoke |-> "pending"])]
                    /\ threads' = [threads EXCEPT ![t].pc = "store",
                                                  ![t].obj = h]
           ELSE /\ threads' = [threads EXCEPT ![t].pc = "except"]
                /\ UNCHANGED models
    /\ UNCHANGED <<pipeline, _SUMMARY, _ZS, call, pp>>

\* _SUMMARY = <the object pipeline(...) returned>
Store(t) ==
    /\ threads[t].pc = "store"
    /\ SetHandle(threads[t].op, threads[t].obj)
    /\ threads' = [threads EXCEPT ![t].pc = "smoke"]
    /\ UNCHANGED <<pipeline, call, pp, models>>

\* _ = _SUMMARY("Resuma em 1 frase: teste.", ...): the handle is read again
\* and called; calling the str "FALLBACK" raises TypeError
SmokeStart(t) ==
    /\ threads[t].pc = "smoke"
    /\ LET e == threads[t].op
           h == Handle(e)
       IN  IF IsPipeline(h)
           THEN /\ threads' = [threads EXCEPT ![t].pc = "smoking",
                                              ![t].callee = h]
                /\ models' = [models EXCEPT ![e][PipelineIndex(h)].smoke =
                                 IF @ = "ok" THEN @ ELSE "running"]
           ELSE /\ threads' = [threads EXCEPT ![t].pc = "except"]
                /\ UNCHANGED models
    /\ UNCHANGED <<pipeline, _SUMMARY, _ZS, call, pp>>

\* the smoke-test call returns or raises
SmokeEnd(t) ==
    /\ threads[t].pc = "smoking"
    /\ \E smoke_ok \in BOOLEAN :
           LET e == threads[t].op
               i == PipelineIndex(threads[t].callee)
           IN  /\ models' = [models EXCEPT ![e][i].smoke =
                                IF smoke_ok \/ @ = "ok" THEN "ok" ELSE "failed"]
               /\ threads' = [threads EXCEPT ![t].pc =
                                 IF smoke_ok THEN "return" ELSE "except"]
    /\ UNCHANGED <<pipeline, _SUMMARY, _ZS, call, pp>>

\* except Exception: _SUMMARY = "FALLBACK"
Except(t) ==
    /\ threads[t].pc = "except"
    /\ SetHandle(threads[t].op, "FALLBACK")
    /\ threads' = [threads EXCEPT ![t].pc = "return"]
    /\ UNCHANGED <<pipeline, call, pp, models>>

\* return _SUMMARY: the handle as it is now goes to the caller
ReturnHandle(t) ==
    /\ threads[t].pc = "return"
    /\ threads' = [threads EXCEPT ![t].pc = "got",
                                  ![t].z = Handle(threads[t].op)]
    /\ UNCHANGED <<pipeline, _SUMMARY, _ZS, call, pp, models>>

\* if summ == "FALLBACK": return the fallback result; else call the model
Serve(t) ==
    /\ threads[t].pc = "got"
    /\ threads' = [threads EXCEPT ![t].pc =
                      IF threads[t].z = "FALLBACK" THEN "done" ELSE "invoking"]
    /\ UNCHANGED <<pipeline, _SUMMARY, _ZS, call, pp, models>>

\* the model call returns or raises; either way the call returns a result
\* and the handle stays
InvokeEnd(t) ==
    /\ threads[t].pc = "invoking"
    /\ threads' = [threads EXCEPT ![t].pc = "done"]
    /\ UNCHANGED <<pipeline, _SUMMARY, _ZS, call, pp, models>>

NextThreads ==
    \E t \in Threads :
        \/ CallEngine(t)
        \/ CheckCached(t)
        \/ NoLibrary(t)
        \/ Construct(t)
        \/ Store(t)
        \/ SmokeStart(t)
        \/ SmokeEnd(t)
        \/ Except(t)
        \/ ReturnHandle(t)
        \/ Serve(t)
        \/ InvokeEnd(t)

SpecThreads == Init /\ [][NextThreads]_vars
(***************************************************************************)
(* Properties.                                                             *)
(***************************************************************************)
ResumoMarker == <<"R", "e", "s", "u", "m", "o", ":">>

IsBlank(text) == \A i \in DOMAIN text : text[i] \in Whitespace

\* the text of the last call as summarize_pt and classify_zero_shot_pt see
\* it after text.strip()
CallText == Strip(call.text)

IsLongCall == CallText # <<>> /\ WordCount(CallText) > SHORT_WORDS_THRESHOLD

\* C1: once the handle of an engine is resolved (to a pipeline or to
\* "FALLBACK"), no step changes it any more and no later call of that engine
\* constructs a pipeline again.
C1_ResolvedHandleIsFinal ==
    [][/\ _SUMMARY # "None" =>
              /\ _SUMMARY' = _SUMMARY
              /\ ~(call'.op = "summarize" /\ call'.constructed)
       /\ _ZS # "None" =>
              /\ _ZS' = _ZS
              /\ ~(call'.op = "classify" /\ call'.constructed)]_vars

\* a summarize call with a long text that found the handle at "FALLBACK"
\* although the library is there (so an earlier construction or smoke test
\* failed), and took the fallback path without constructing anything
C1_Witness ==
    /\ call.op = "summarize"
    /\ pipeline
    /\ call.before = "FALLBACK"
    /\ call.path = "fallback"
    /\ ~call.constructed
    /\ _SUMMARY = "FALLBACK"

\* C2: no exception escapes summarize_pt or classify_zero_shot_pt, and a
\* call that met a backend failure (no library, failed construction, failed
\* smoke test, a handle already at "FALLBACK", a model call that raised)
\* returns the fallback result: a naive summary of the text, or the
\* heuristic classification of the text and the filtered labels.
C2_NoExceptionEscapes ==
    call.op # "idle" =>
        /\ ~call.raised
        /\ call.failure # "none" => call.path \in {"fallback", "model_error"}
        /\ (call.op = "summarize" /\ call.path \in {"fallback", "model_error"}) =>
               \E m \in SentenceCounts \cup {3} :
                   call.result = _fallback_summary(CallText, m)
        /\ (call.op = "classify" /\ call.path \in {"fallback", "model_error"}) =>
               call.result = _fallback_classify(CallText, FilterLabels(call.labels))

\* a summarize call whose model call raised returned a naive summary
C2_Witness ==
    /\ call.op = "summarize"
    /\ call.failure = "invoke"
    /\ ~call.raised
    /\ StartsWith(call.result, FallbackMarker)

\* C3: a call whose model call raised leaves the handle at the pipeline,
\* and the next call of the same engine that passes the early returns
\* invokes the model again.
C3_InvocationFailureKeepsHandle ==
    /\ (call.op = "summarize" /\ call.failure = "invoke") =>
           /\ call.before \in {"None", "PIPELINE"}
           /\ _SUMMARY = "PIPELINE"
    /\ (call.op = "classify" /\ call.failure = "invoke") =>
           /\ call.before \in {"None", "PIPELINE"}
           /\ _ZS = "PIPELINE"
    /\ (call.op = "summarize" /\ call.after_error /\ IsLongCall) =>
           /\ call.before = "PIPELINE"
           /\ call.invoked
           /\ call.path \in {"model", "model_error"}
    /\ (call.op = "classify" /\ call.after_error /\ CallText # <<>>
            /\ FilterLabels(call.labels) # <<>>) =>
           /\ call.before = "PIPELINE"
           /\ call.invoked
           /\ call.path \in {"model", "model_error"}

\* the summarize call after one whose model call raised got its result from
\* the model
C3_Witness ==
    /\ call.op = "summarize"
    /\ call.after_error
    /\ call.path = "model"
    /\ call.result = _postprocess_summary(Strip(call.raw), call.max_sentences)
    /\ call.result # <<>>

\* C4: for a non-empty trimmed text of at most 6 word tokens summarize_pt
\* returns _rb_summary_pt of the text, whatever the handle and
\* max_sentences are, and neither resolves the handle nor calls the model.
C4_ShortTextIsRuleBased ==
    (call.op = "summarize" /\ CallText # <<>> /\ WordCount(CallText) <= 6) =>
        /\ call.result = _rb_summary_pt(CallText)
        /\ call.path = "rule_based"
        /\ ~call.invoked
        /\ ~call.constructed
        /\ _SUMMARY = call.before

\* a text of exactly 6 word tokens summarized by rule, with max_sentences 0,
\* while the handle is still None: it stays None
C4_Witness ==
    /\ call.op = "summarize"
    /\ WordCount(CallText) = 6
    /\ call.before = "None"
    /\ _SUMMARY = "None"
    /\ pipeline
    /\ call.max_sentences = 0
    /\ call.result = _rb_summary_pt(CallText)

\* C5: for an empty or whitespace-only text summarize_pt returns "" and
\* classify_zero_shot_pt returns {label: "", scores: {}} for any labels;
\* neither calls the model or the fallback, nor resolves the handle.
C5_BlankTextIsEmptyResult ==
    (call.op # "idle" /\ IsBlank(call.text)) =>
        /\ call.path = "empty"
        /\ ~call.invoked
        /\ ~call.constructed
        /\ call.op = "summarize" => (call.result = <<>> /\ _SUMMARY = call.before)
        /\ call.op = "classify" => (call.result = EmptyResult /\ _ZS = call.before)

\* a whitespace-only text classified with a usable label list while the
\* handle is still None
C5_Witness ==
    /\ call.op = "classify"
    /\ call.text = <<" ", "\n">>
    /\ call.labels = [none |-> FALSE, items |-> <<"Reclamação", "Dúvida">>]
    /\ call.before = "None"
    /\ _ZS = "None"
    /\ call.result = EmptyResult

\* C6: classify_zero_shot_pt called with a non-empty text and an explicitly
\* supplied empty label list returns {label: "", scores: {}} without calling
\* the model or the fallback classifier.
C6_EmptyLabelListIsEmptyResult ==
    (call.op = "classify" /\ CallText # <<>> /\ ~call.labels.none
         /\ call.labels.items = <<>>) =>
        /\ call.result = EmptyResult
        /\ call.path = "empty"
        /\ ~call.invoked

\* C7: the string summarize_pt returns never starts with "Resumo:", on the
\* rule-based path, the fallback path and the model path alike.
C7_SummaryNeverStartsWithMarker ==
    call.op = "summarize" => ~StartsWith(call.result, ResumoMarker)

\* C8: the string _postprocess_summary returns never starts with "resumo:"
\* compared case-insensitively, whatever the raw output and max_sentences.
C8_PostprocessStripsMarker ==
    pp.done => ~MatchCI(pp.result, 1, LowerStr(ResumoMarker))

\* a raw output that repeats the marker and still yields a sentence
C8_Witness ==
    /\ pp.done
    /\ pp.raw = <<"R", "e", "s", "u", "m", "o", ":", " ",
                  "R", "e", "s", "u", "m", "o", ":", " ",
                  "a", "b", "c", ".", " ">>
    /\ pp.result = <<"a", "b", "c", ".">>

\* C9: the sentences _postprocess_summary keeps have pairwise distinct
\* dedup keys and come in the order of the sentences of the raw output
\* they were made from; the result is these sentences joined.
C9_KeptSentencesDistinctInOrder ==
    pp.done =>
        /\ \A a, b \in DOMAIN pp.out :
               a < b => /\ DedupKey(pp.out[a].s) # DedupKey(pp.out[b].s)
                        /\ pp.out[a].idx < pp.out[b].idx
        /\ \A a \in DOMAIN pp.out :
               /\ pp.out[a].idx \in DOMAIN PostSents(pp.raw)
               /\ pp.out[a].s =
                      StripResidual(StripChars(PostSents(pp.raw)[pp.out[a].idx],
                                               QuoteChars))
        /\ StartsWith(pp.result,
                      Join([k \in 1..Len(pp.out) |-> pp.out[k].s], <<" ">>))

\* three sentences of which the second repeats the first in another case:
\* the first and the third are kept
C9_Witness ==
    /\ pp.done
    /\ Len(PostSents(pp.raw)) >= 3
    /\ Len(pp.out) = 2
    /\ pp.out[1].idx = 1
    /\ pp.out[2].idx = 3
    /\ DedupKey(StripChars(PostSents(pp.raw)[2], QuoteChars)) = pp.out[1].key

\* the first position of lbl in the list ls
FirstIndex(ls, lbl) ==
    CHOOSE i \in DOMAIN ls : ls[i] = lbl /\ \A j \in 1..(i - 1) : ls[j] # lbl

\* C10: a result of the heuristic fallback for a non-empty text and a
\* non-empty filtered label list has exactly the requested labels as the
\* keys of scores, and label is a key of maximal score, the first such key
\* in the requested order.
C10_FallbackResultWellFormed ==
    (call.op = "classify" /\ call.path \in {"fallback", "model_error"}) =>
        LET ls == FilterLabels(call.labels)
            sc == call.result.scores
            keys == {sc[i].lbl : i \in DOMAIN sc}
            ScoreOf(lbl) == sc[CHOOSE i \in DOMAIN sc : sc[i].lbl = lbl].sc
        IN  /\ ls # <<>>
            /\ keys = {ls[i] : i \in DOMAIN ls}
            /\ Cardinality(keys) = Len(sc)
            /\ call.result.label \in keys
            /\ \A l \in keys :
                   \/ ScoreOf(l) < ScoreOf(call.result.label)
                   \/ /\ ScoreOf(l) = ScoreOf(call.result.label)
                      /\ FirstIndex(ls, call.result.label) <= FirstIndex(ls, l)

\* two requested labels tie at one keyword each; the one requested first
\* wins although the other comes first in the keyword table
C10_Witness ==
    /\ call.op = "classify"
    /\ call.path = "model_error"
    /\ call.labels = [none |-> FALSE, items |-> <<"Dúvida", "Reclamação">>]
    /\ call.result.label = "Dúvida"
    /\ call.result.scores = <<[lbl |-> "Dúvida", sc |-> 21],
                              [lbl |-> "Reclamação", sc |-> 21]>>


\* the keywords of lbl's entry of the table that occur in the lowercased
\* text, as a set: each keyword once
MatchedKeywords(text, lbl) ==
    UNION {{kw \in {Rules[r].kws[k] : k \in DOMAIN Rules[r].kws} :
                Contains(text_l, kw)}
           : r \in {r \in DOMAIN Rules : Rules[r].lbl = lbl},
             text_l \in {LowerStr(text)}}

\* the score (in hundredths) of lbl in the scores of a classification result
ScoreIn(scores, lbl) ==
    scores[CHOOSE i \in DOMAIN scores : scores[i].lbl = lbl].sc

\* the matched keywords of every text and label of the explored inputs
KeywordsIn ==
    [t \in ClsTexts |->
        [lbl \in LabelPool \cup {DEFAULT_CATEGORIES[i] : i \in DOMAIN DEFAULT_CATEGORIES}
            |-> MatchedKeywords(Strip(t), lbl)]]

\* the scores of the heuristic fallback for every text and every filtered
\* label list of the explored inputs
FallbackScores ==
    [t \in ClsTexts |->
        [ls \in {FilterLabels(a) : a \in LabelArgs} \ {<<>>} |->
            _fallback_classify(Strip(t), ls).scores]]

\* C11: in a result of the heuristic fallback the score of each requested
\* label is 0.01 plus 0.2 for each distinct keyword of the label's table
\* entry that occurs in the lowercased text, however often it occurs (0.01
\* for a label outside the table); and any text that matches at least the
\* same keywords of a label gets at least the same score for that label.
C11_ScoreCountsDistinctKeywords ==
    (call.op = "classify" /\ call.path \in {"fallback", "model_error"}) =>
        \A sc \in {call.result.scores}, ls \in {FilterLabels(call.labels)} :
            /\ \A i \in DOMAIN sc :
                   sc[i].sc = BaseScore
                       + KeywordScore
                           * Cardinality(KeywordsIn[call.text][sc[i].lbl])
            /\ \A t2 \in ClsTexts : \A i \in DOMAIN sc :
                   KeywordsIn[call.text][sc[i].lbl] \subseteq KeywordsIn[t2][sc[i].lbl]
                   => sc[i].sc <= ScoreIn(FallbackScores[t2][ls], sc[i].lbl)

\* a text in which "erro" and "como" occur twice each: one keyword hit for
\* each of the two labels
C11_Witness ==
    /\ call.op = "classify"
    /\ call.path = "fallback"
    /\ CallText = <<"E", "r", "r", "o", " ", "c", "o", "m", "o", " ",
                    "E", "r", "r", "o", " ", "c", "o", "m", "o">>
    /\ call.result.scores = <<[lbl |-> "Reclamação", sc |-> 21],
                              [lbl |-> "Dúvida", sc |-> 21]>>

\* C12: for a text that is not empty once trimmed, with n sentences, and
\* max_sentences >= 1, _fallback_summary returns the marker, then the first
\* min(n, max_sentences) sentences joined by single spaces, then " ..."
\* exactly when n > max_sentences; for an empty text it returns the empty
\* string.
C12_NaiveSummaryShape ==
    pp.done =>
        LET t == Strip(pp.raw)
            sents == SplitSentences(t)
            n == Len(sents)
            k == IF n < pp.max_sentences THEN n ELSE pp.max_sentences
        IN  /\ t = <<>> => pp.result = <<>>
            /\ (t # <<>> /\ pp.max_sentences >= 1) =>
                   pp.result =
                       FallbackMarker
                           \o Join(SubSeq(sents, 1, k), <<" ">>)
                           \o (IF n > pp.max_sentences THEN <<" ", ".", ".", ".">>
                               ELSE <<>>)

\* a text of four sentences cut to its first two
C12_Witness ==
    /\ pp.done
    /\ Len(SplitSentences(Strip(pp.raw))) = 4
    /\ pp.max_sentences = 2
    /\ pp.result = FallbackMarker
                       \o <<"u", "m", " ", "d", "o", "i", "s", ".", " ",
                            "t", "r", "e", "s", " ", "q", "u", "a", "t", "r", "o",
                            "!", " ", ".", ".", ".">>

\* C13: _postprocess_summary keeps at most max_sentences sentences (none
\* when max_sentences is 0), in the order of the raw output, and the result
\* ends with the " ..." it appends only when the raw output had more than
\* max_sentences sentences and at least one sentence was kept.
C13_AtMostMaxSentences ==
    pp.done =>
        LET kept == Join([k \in 1..Len(pp.out) |-> pp.out[k].s], <<" ">>)
        IN  /\ Len(pp.out) <= pp.max_sentences
            /\ \A a, b \in DOMAIN pp.out : a < b => pp.out[a].idx < pp.out[b].idx
            /\ pp.result \in {kept, kept \o <<" ", ".", ".", ".">>}
            /\ pp.result # kept =>
                   /\ Len(PostSents(pp.raw)) > pp.max_sentences
                   /\ pp.out # <<>>

\* the labels of LabelPool that are empty once trimmed
BlankLabels == {"", " "}

\* C14: classify_zero_shot_pt keeps only the supplied labels that are not
\* empty after trimming: for a non-empty text no whitespace-only label is a
\* key of scores or the returned label, and when every label of a supplied
\* non-empty list is empty or whitespace-only the result is
\* {label: "", scores: {}}.
C14_BlankLabelsAreFiltered ==
    (call.op = "classify" /\ CallText # <<>> /\ ~call.labels.none) =>
        LET items == call.labels.items
            sc == call.result.scores
        IN  /\ \A i \in DOMAIN sc : sc[i].lbl \notin BlankLabels
            /\ call.result.label \in BlankLabels => call.result = EmptyResult
            /\ (items # <<>> /\ \A i \in DOMAIN items : items[i] \in BlankLabels)
                   => call.result = EmptyResult

\* C15: for a text of more than 6 words, the result of a summarize_pt call
\* whose model call raised is the result summarize_pt returns for the same
\* text and max_sentences when the handle is "FALLBACK": the naive summary
\* with the caller's max_sentences.
C15_InvocationFailureEqualsFallback ==
    (call.op = "summarize" /\ call.path = "model_error" /\ IsLongCall) =>
        /\ call.result =
               summarize_pt(call.text, call.max_sentences, "FALLBACK", pipeline,
                            [construct_ok |-> FALSE, smoke_ok |-> FALSE,
                             invoke_ok |-> FALSE, raw |-> <<>>]).result
        /\ call.result = _fallback_summary(CallText, call.max_sentences)

\* the callers of engine e that are inside the first initialisation
Initializing(e) ==
    {t \in Threads : /\ threads[t].op = e
                     /\ threads[t].pc \in {"construct", "store", "smoke",
                                           "smoking", "except"}}

\* C16: with callers running at the same time, at most one pipeline object
\* is constructed per engine and at most one caller at a time is inside the
\* first initialisation of an engine.
C16_PipelineConstructedOnce ==
    \A e \in Engines :
        /\ Len(models[e]) <= 1
        /\ Cardinality(Initializing(e)) <= 1

\* C17: the handle get_summarizer / get_zero_shot has returned to a caller
\* is a pipeline only if a smoke test of that pipeline has completed
\* successfully, so no caller invokes a pipeline whose smoke test failed or
\* is still running.
C17_OnlySmokeTestedModelServes ==
    \A t \in Threads :
        (threads[t].pc \in {"got", "invoking"} /\ IsPipeline(threads[t].z)) =>
            SmokeOf(threads[t].op, threads[t].z) = "ok"
====
